---- MODULE Spec2Model ----
(***************************************************************************)
(* Model of the two Lambda handlers of cloud_formation/s3_lambda_ses:      *)
(*   lambda-email/email_sender.py  (Upload Notifier)                       *)
(*   lambda-notify/lambda_fn.py    (Notification Registrar)                *)
(* Spec    runs concurrent invocations of the Upload Notifier.             *)
(* RegSpec runs the custom-resource lifecycle of the Registrar.            *)
(***************************************************************************)
EXTENDS Integers, Sequences, FiniteSets, TLC

\* ------------------------------------------------------------------ bounds
\* number of Upload Notifier invocations the platform starts
MaxInv == 2
\* number of lifecycle events CloudFormation delivers to the Registrar
MaxRegInv == 3

\* ------------------------------------------------------------- input sets
Absent == "<absent>"
None == "<none>"

Invocations == 1..MaxInv

Senders == {"sender@example.com"}
Recipients == {"recipient@example.com"}
Regions == {"eu-west-1"}
Environs ==
    [sender : Senders \cup {Absent},
     recipient : Recipients \cup {Absent},
     awsregion : Regions \cup {Absent}]

Buckets == {"uploads-a", "uploads-b"}
Keys == {"notes.txt", "photo.png"}
\* an event: whether Records[0] exists, and the values found (or not) at
\* Records[0].s3.object.key and Records[0].s3.bucket.name
Events ==
    {e \in [hasRecord : BOOLEAN, key : Keys \cup {Absent}, name : Buckets \cup {Absent}] :
        ~e.hasRecord => (e.key = Absent /\ e.name = Absent)}

\* what the mail service answers to one send_email call
RejectionMessages == {"Email address is not verified.", "Maximum sending rate exceeded."}
MessageIds == {"0100018f-msg"}
Responses ==
    [type : {"ok"}, value : MessageIds]
    \cup [type : {"ClientError"}, value : RejectionMessages]
    \cup [type : {"EndpointConnectionError"}, value : {"Could not connect to the endpoint URL"}]

\* --------------------------------------------- email_sender.py: the message
SUBJECT == "File Uploaded to S3 bucket"

BODY_TEXT ==
    "Amazon SES Test (Python)\r\n"
    \o "This email was sent with Amazon SES using the "
    \o "AWS SDK for Python (Boto)."

CHARSET == "UTF-8"

HtmlHead ==
    "<html>\n    <head></head>\n    <body>\n      <h1>A file was uploaded to Bucket: "
HtmlMid == "</h1>\n      <p>File name "
HtmlTail ==
    "<p>\n      <p>This email was sent with\n"
    \o "        <a href='https://aws.amazon.com/ses/'>Amazon SES</a> using the\n"
    \o "        <a href='https://aws.amazon.com/sdk-for-python/'>\n"
    \o "          AWS SDK for Python (Boto)</a>.</p>\n"
    \o "    </body>\n    </html>\n                "

\* faulty variant: the two interpolated values swapped
BODY_HTML_Swapped(BUCKET, OBJECT) == HtmlHead \o OBJECT \o HtmlMid \o BUCKET \o HtmlTail

BODY_HTML(BUCKET, OBJECT) == HtmlHead \o BUCKET \o HtmlMid \o OBJECT \o HtmlTail

\* faulty variant: sender and recipient exchanged in the request
SendEmailRequest_Exchanged(SENDER, RECIPIENT, BUCKET, OBJECT) ==
    [Destination |-> [ToAddresses |-> <<SENDER>>],
     Message |->
        [Body |->
            [Html |-> [Charset |-> CHARSET, Data |-> BODY_HTML(BUCKET, OBJECT)],
             Text |-> [Charset |-> CHARSET, Data |-> BODY_TEXT]],
         Subject |-> [Charset |-> CHARSET, Data |-> SUBJECT]],
     Source |-> RECIPIENT]

\* the keyword arguments of client.send_email
SendEmailRequest(SENDER, RECIPIENT, BUCKET, OBJECT) ==
    [Destination |-> [ToAddresses |-> <<RECIPIENT>>],
     Message |->
        [Body |->
            [Html |-> [Charset |-> CHARSET, Data |-> BODY_HTML(BUCKET, OBJECT)],
             Text |-> [Charset |-> CHARSET, Data |-> BODY_TEXT]],
         Subject |-> [Charset |-> CHARSET, Data |-> SUBJECT]],
     Source |-> SENDER]

\* ------------------------------------- email_sender.py: reading the inputs
NoException == [type |-> None, arg |-> None]
NoResponse == [type |-> None, value |-> None]

\* os.environ[...] for sender, recipient, awsregion in this order: the first
\* absent name raises KeyError(name)
EnvFailure(env) ==
    IF env.sender = Absent THEN [type |-> "KeyError", arg |-> "sender"]
    ELSE IF env.recipient = Absent THEN [type |-> "KeyError", arg |-> "recipient"]
    ELSE IF env.awsregion = Absent THEN [type |-> "KeyError", arg |-> "awsregion"]
    ELSE NoException

\* event["Records"][0]["s3"]["object"]["key"], then ...["bucket"]["name"]
EventFailure(ev) ==
    IF ~ev.hasRecord THEN [type |-> "IndexError", arg |-> "Records[0]"]
    ELSE IF ev.key = Absent THEN [type |-> "KeyError", arg |-> "key"]
    ELSE IF ev.name = Absent THEN [type |-> "KeyError", arg |-> "name"]
    ELSE NoException

\* faulty variant: the event is read before the environment
InputFailure_EventFirst(env, ev) ==
    IF EventFailure(ev) # NoException THEN EventFailure(ev) ELSE EnvFailure(env)

\* lines 10-19 in order: the exception the reads raise, if any
InputFailure(env, ev) ==
    IF EnvFailure(env) # NoException THEN EnvFailure(env) ELSE EventFailure(ev)

\* ------------------------------------------------------------------ state
VARIABLES
    environ,    \* os.environ of the function's configuration
    pc,         \* per invocation: idle, ready, called, returned, raised
    event,      \* per invocation: the event the platform passed
    request,    \* per invocation: the send_email arguments built (or None)
    response,   \* per invocation: what send_email returned or raised
    exception,  \* per invocation: the exception that left the handler
    sesCalls,   \* per invocation: the send_email calls the mail service received
    stdout,     \* per invocation: the lines printed
    bucketNotification, \* storage service: bucket -> notification configuration
    regPc,      \* Registrar: idle, dispatched, done
    regEvent,   \* Registrar: the lifecycle event being handled
    regCalls,   \* Registrar: storage calls issued during the current event
    regLog,     \* Registrar: log entries of the current event
    regStatus,  \* Registrar: lifecycle outcome of the current event
    regPrior,   \* storage configuration when the current event arrived
    regCount    \* lifecycle events delivered so far

notifierVars == <<environ, pc, event, request, response, exception, sesCalls, stdout>>
registrarVars ==
    <<bucketNotification, regPc, regEvent, regCalls, regLog, regStatus, regPrior, regCount>>
vars == <<notifierVars, registrarVars>>

\* ------------------------------------------------ Upload Notifier: actions
NotifierIdle ==
    /\ pc = [i \in Invocations |-> "idle"]
    /\ event = [i \in Invocations |-> None]
    /\ request = [i \in Invocations |-> None]
    /\ response = [i \in Invocations |-> NoResponse]
    /\ exception = [i \in Invocations |-> NoException]
    /\ sesCalls = [i \in Invocations |-> <<>>]
    /\ stdout = [i \in Invocations |-> <<>>]

\* faulty variant: a missing bucket name is tolerated (dict.get) instead of raising
Invoke_Lenient(i, ev) ==
    /\ pc[i] = "idle"
    /\ \A j \in Invocations : j < i => pc[j] # "idle"
    /\ event' = [event EXCEPT ![i] = ev]
    /\ LET failure == InputFailure(environ, ev) IN
        IF failure # NoException /\ failure.arg # "name"
        THEN /\ pc' = [pc EXCEPT ![i] = "raised"]
             /\ exception' = [exception EXCEPT ![i] = failure]
             /\ UNCHANGED request
        ELSE /\ pc' = [pc EXCEPT ![i] = "ready"]
             /\ request' = [request EXCEPT ![i] =
                    SendEmailRequest(environ.sender, environ.recipient, ev.name, ev.key)]
             /\ UNCHANGED exception
    /\ UNCHANGED <<environ, response, sesCalls, stdout, registrarVars>>

\* the platform starts invocation i of handler(event, context) (invocations
\* are numbered in the order they start), which runs lines 10-49: it reads the
\* environment and the event, builds the message and the client; the first
\* failing read raises and ends the invocation
Invoke(i, ev) ==
    /\ pc[i] = "idle"
    /\ \A j \in Invocations : j < i => pc[j] # "idle"
    /\ event' = [event EXCEPT ![i] = ev]
    /\ LET failure == InputFailure(environ, ev) IN
        IF failure # NoException
        THEN /\ pc' = [pc EXCEPT ![i] = "raised"]
             /\ exception' = [exception EXCEPT ![i] = failure]
             /\ UNCHANGED request
        ELSE /\ pc' = [pc EXCEPT ![i] = "ready"]
             /\ request' = [request EXCEPT ![i] =
                    SendEmailRequest(environ.sender, environ.recipient, ev.name, ev.key)]
             /\ UNCHANGED exception
    /\ UNCHANGED <<environ, response, sesCalls, stdout, registrarVars>>

\* faulty variant: an upload already announced by another invocation is not sent again
SendEmail_Deduplicating(i, r) ==
    /\ pc[i] = "ready"
    /\ IF \E j \in Invocations \ {i} : sesCalls[j] # <<>> /\ event[j] = event[i]
       THEN sesCalls' = sesCalls
       ELSE sesCalls' = [sesCalls EXCEPT ![i] = Append(@, request[i])]
    /\ response' = [response EXCEPT ![i] = r]
    /\ pc' = [pc EXCEPT ![i] = "called"]
    /\ UNCHANGED <<environ, event, request, exception, stdout, registrarVars>>

\* lines 54-77: the one client.send_email call; the mail service answers r
SendEmail(i, r) ==
    /\ pc[i] = "ready"
    /\ sesCalls' = [sesCalls EXCEPT ![i] = Append(@, request[i])]
    /\ response' = [response EXCEPT ![i] = r]
    /\ pc' = [pc EXCEPT ![i] = "called"]
    /\ UNCHANGED <<environ, event, request, exception, stdout, registrarVars>>

\* faulty variant: a rejected send is tried once more before the error is printed
Finish_Retrying(i) ==
    /\ pc[i] = "called"
    /\ LET r == response[i] IN
        CASE r.type = "ClientError" ->
                /\ sesCalls' = [sesCalls EXCEPT ![i] = Append(@, request[i])]
                /\ stdout' = [stdout EXCEPT ![i] = Append(@, r.value)]
                /\ pc' = [pc EXCEPT ![i] = "returned"]
                /\ UNCHANGED exception
          [] r.type = "ok" ->
                /\ stdout' = [stdout EXCEPT ![i] = @ \o <<"Email sent! Message ID:", r.value>>]
                /\ pc' = [pc EXCEPT ![i] = "returned"]
                /\ UNCHANGED <<exception, sesCalls>>
          [] OTHER ->
                /\ exception' = [exception EXCEPT ![i] = [type |-> r.type, arg |-> r.value]]
                /\ pc' = [pc EXCEPT ![i] = "raised"]
                /\ UNCHANGED <<stdout, sesCalls>>
    /\ UNCHANGED <<environ, event, request, response, registrarVars>>

\* lines 79-83: except ClientError prints the message; else prints the message
\* id; any other exception leaves the handler
Finish(i) ==
    /\ pc[i] = "called"
    /\ LET r == response[i] IN
        CASE r.type = "ClientError" ->
                /\ stdout' = [stdout EXCEPT ![i] = Append(@, r.value)]
                /\ pc' = [pc EXCEPT ![i] = "returned"]
                /\ UNCHANGED exception
          [] r.type = "ok" ->
                /\ stdout' = [stdout EXCEPT ![i] = @ \o <<"Email sent! Message ID:", r.value>>]
                /\ pc' = [pc EXCEPT ![i] = "returned"]
                /\ UNCHANGED exception
          [] OTHER ->
                /\ exception' = [exception EXCEPT ![i] = [type |-> r.type, arg |-> r.value]]
                /\ pc' = [pc EXCEPT ![i] = "raised"]
                /\ UNCHANGED stdout
    /\ UNCHANGED <<environ, event, request, response, sesCalls, registrarVars>>

\* ------------------------------------------------------ Upload Notifier claims
\* t occurs in s as a run of consecutive characters
Contains(s, t) ==
    \E k \in 0..(Len(s) - Len(t)) : SubSeq(s, k + 1, k + Len(t)) = t

Started(i) == pc[i] # "idle"
Ended(i) == pc[i] \in {"returned", "raised"}
EnvironPresent ==
    /\ environ.sender # Absent
    /\ environ.recipient # Absent
    /\ environ.awsregion # Absent
WellFormed(i) ==
    /\ pc[i] # "idle"
    /\ event[i].hasRecord
    /\ event[i].key # Absent
    /\ event[i].name # Absent
TotalCalls(S) ==
    LET RECURSIVE Sum(_)
        Sum(T) == IF T = {} THEN 0
                  ELSE LET i == CHOOSE x \in T : TRUE IN Len(sesCalls[i]) + Sum(T \ {i})
    IN Sum(S)

\* C1: an invocation with sender, recipient and awsregion present and a
\* well-formed event issues exactly one send-email call, whose Source is the
\* sender value and whose ToAddresses is the one-element list of the recipient
\* value; no invocation ever issues more than one call.
C1_ExactlyOneSend ==
    \A i \in Invocations :
        /\ Len(sesCalls[i]) <= 1
        /\ (Started(i) /\ pc[i] # "ready" /\ EnvironPresent /\ WellFormed(i)) =>
            /\ Len(sesCalls[i]) = 1
            /\ sesCalls[i][1].Source = environ.sender
            /\ sesCalls[i][1].Destination.ToAddresses = <<environ.recipient>>
            /\ DOMAIN sesCalls[i][1].Destination = {"ToAddresses"}

C1_Witness ==
    \E i \in Invocations :
        /\ pc[i] = "returned"
        /\ response[i].type = "ok"
        /\ Len(sesCalls[i]) = 1
        /\ sesCalls[i][1].Source = "sender@example.com"
        /\ sesCalls[i][1].Destination.ToAddresses = <<"recipient@example.com">>

\* C2: when the send-email call is rejected by the mail service, the
\* invocation returns without an exception, prints exactly one line, which
\* contains the rejection message, prints no success line, and has issued
\* exactly one send-email call.
C2_RejectionIsLogged ==
    \A i \in Invocations :
        (Ended(i) /\ response[i].type = "ClientError") =>
            /\ pc[i] = "returned"
            /\ exception[i] = NoException
            /\ Len(stdout[i]) = 1
            /\ Contains(stdout[i][1], response[i].value)
            /\ \A n \in DOMAIN stdout[i] : ~Contains(stdout[i][n], "Email sent!")
            /\ Len(sesCalls[i]) = 1

C2_Witness ==
    \E i \in Invocations :
        /\ pc[i] = "returned"
        /\ response[i].type = "ClientError"
        /\ stdout[i] = <<"Email address is not verified.">>
        /\ Len(sesCalls[i]) = 1

\* C3: when sender, recipient or awsregion is absent, every invocation ends
\* with an uncaught KeyError naming an absent variable, and has issued no
\* send-email call and printed nothing, whatever its event holds.
C3_MissingEnvironFailsFirst ==
    \A i \in Invocations :
        (Started(i) /\ ~EnvironPresent) =>
            /\ pc[i] = "raised"
            /\ exception[i].type = "KeyError"
            /\ exception[i].arg \in {"sender", "recipient", "awsregion"}
            /\ environ[exception[i].arg] = Absent
            /\ sesCalls[i] = <<>>
            /\ stdout[i] = <<>>

C3_Witness ==
    /\ environ.sender # Absent /\ environ.recipient # Absent /\ environ.awsregion = Absent
    /\ \E i \in Invocations :
        /\ pc[i] = "raised" /\ WellFormed(i)
        /\ exception[i] = [type |-> "KeyError", arg |-> "awsregion"]
    /\ \E i \in Invocations :
        /\ pc[i] = "raised" /\ ~event[i].hasRecord
        /\ exception[i] = [type |-> "KeyError", arg |-> "awsregion"]

\* C7: an event without record 0, without the object key or without the
\* bucket name ends the invocation with a propagated exception, no send-email
\* call and no printed line; with the environment present the exception is the
\* one the event lookup raised.
C7_MalformedEventPropagates ==
    \A i \in Invocations :
        (Started(i) /\ ~WellFormed(i)) =>
            /\ pc[i] = "raised"
            /\ exception[i].type \in {"IndexError", "KeyError"}
            /\ EnvironPresent =>
                exception[i].arg =
                    IF ~event[i].hasRecord THEN "Records[0]"
                    ELSE IF event[i].key = Absent THEN "key" ELSE "name"
            /\ sesCalls[i] = <<>>
            /\ stdout[i] = <<>>

C7_Witness ==
    /\ EnvironPresent
    /\ \E i \in Invocations :
        /\ pc[i] = "raised"
        /\ event[i].hasRecord /\ event[i].key # Absent /\ event[i].name = Absent
        /\ sesCalls[i] = <<>>
    /\ \E i \in Invocations :
        /\ pc[i] = "raised"
        /\ ~event[i].hasRecord

\* the places <<offset, length>> of s where a bucket name or an object key
\* of the input sets occurs
ValueOccurrences(s) ==
    {p \in (0..Len(s)) \X {Len(v) : v \in Buckets \cup Keys} :
        /\ p[1] + p[2] <= Len(s)
        /\ SubSeq(s, p[1] + 1, p[1] + p[2]) \in Buckets \cup Keys}

\* C8: the HTML body of every send-email call is the fixed template with the
\* event's bucket name and object key interpolated: the bucket name stands
\* after "...uploaded to Bucket: ", the key after "File name ", and no bucket
\* name or key occurs anywhere else in the body; the subject is
\* "File Uploaded to S3 bucket"; subject, HTML body and text body carry UTF-8.
C8_RenderedMessage ==
    \A i \in Invocations :
        sesCalls[i] # <<>> =>
            LET m == sesCalls[i][1].Message
                html == m.Body.Html.Data
                B == event[i].name
                K == event[i].key
                atB == Len(HtmlHead)
                atK == Len(HtmlHead) + Len(B) + Len(HtmlMid)
            IN  /\ SubSeq(html, atB + 1, atB + Len(B)) = B
                /\ SubSeq(html, atK + 1, atK + Len(K)) = K
                /\ ValueOccurrences(html) = {<<atB, Len(B)>>, <<atK, Len(K)>>}
                /\ html = HtmlHead \o B \o HtmlMid \o K \o HtmlTail
                /\ m.Subject.Data = "File Uploaded to S3 bucket"
                /\ m.Subject.Charset = "UTF-8"
                /\ m.Body.Html.Charset = "UTF-8"
                /\ m.Body.Text.Charset = "UTF-8"

C8_Witness ==
    \E i \in Invocations :
        /\ sesCalls[i] # <<>>
        /\ event[i].name = "uploads-b"
        /\ event[i].key = "notes.txt"
        /\ Contains(sesCalls[i][1].Message.Body.Html.Data, "Bucket: uploads-b</h1>")
        /\ Contains(sesCalls[i][1].Message.Body.Html.Data, "File name notes.txt<p>")

\* C10: the number of send-email calls issued equals the number of invocations
\* with the environment present and a well-formed event that have reached the
\* call, duplicates of the same bucket and key included; and each call's
\* arguments are determined by the invocation's own event and the environment.
C10_NoDeduplication ==
    /\ TotalCalls(Invocations) =
        Cardinality({i \in Invocations :
            Started(i) /\ pc[i] # "ready" /\ EnvironPresent /\ WellFormed(i)})
    /\ \A i \in Invocations :
        sesCalls[i] # <<>> =>
            /\ sesCalls[i][1].Source = environ.sender
            /\ sesCalls[i][1].Destination.ToAddresses = <<environ.recipient>>
            /\ \A j \in Invocations :
                sesCalls[j] # <<>> => (event[j] = event[i] <=> sesCalls[j] = sesCalls[i])

C10_Witness ==
    /\ \A i \in Invocations : pc[i] = "returned"
    /\ \A i, j \in Invocations : event[i] = event[j]
    /\ TotalCalls(Invocations) = MaxInv
    /\ MaxInv >= 2

\* ------------------------------------------- lambda_fn.py: inputs, storage
FunctionARNs ==
    {"arn:aws:lambda:eu-west-1:111122223333:function:email",
     "arn:aws:lambda:eu-west-1:111122223333:function:email-v2"}
RequestTypes == {"Create", "Update", "Delete"}
\* a custom-resource event: the phase and the ResourceProperties found (or not)
RegEvents ==
    [RequestType : RequestTypes,
     S3BucketName : Buckets \cup {Absent},
     FunctionARN : FunctionARNs \cup {Absent}]

\* notification configurations a bucket may hold before the stack touches it
ForeignRule(id, ev) ==
    [Id |-> id,
     LambdaFunctionArn |-> "arn:aws:lambda:eu-west-1:111122223333:function:thumbnailer",
     Events |-> <<ev>>]
ForeignTopic ==
    [Id |-> "audit", TopicArn |-> "arn:aws:sns:eu-west-1:111122223333:audit",
     Events |-> <<"s3:ObjectRemoved:*">>]
PriorConfigurations ==
    {[LambdaFunctionConfigurations |-> <<>>],
     [LambdaFunctionConfigurations |-> <<ForeignRule("thumbs", "s3:ObjectCreated:Put")>>],
     [LambdaFunctionConfigurations |->
        <<ForeignRule("thumbs", "s3:ObjectCreated:Put"),
          ForeignRule("purge", "s3:ObjectRemoved:*")>>,
      TopicConfigurations |-> <<ForeignTopic>>]}

\* how the storage service answers the put
PutOutcomes == {"accepted", "rejected"}

\* lines 19-26: the NotificationConfiguration argument of the put
NotificationConfiguration(lambda_arn) ==
    [LambdaFunctionConfigurations |->
        <<[Id |-> "object-create-permission",
           LambdaFunctionArn |-> lambda_arn,
           Events |-> <<"s3:ObjectCreated:*">>]>>]

\* the storage service's put: an accepted call replaces the bucket's whole
\* configuration by the argument, a rejected one changes nothing
PutBucketNotification(store, bucket_name, configuration, outcome) ==
    IF outcome = "accepted"
    THEN [store EXCEPT ![bucket_name] = configuration]
    ELSE store

\* faulty variant: the handler reads the bucket's rules and adds its own to them
CreateOrUpdate_Merging(ev, store, outcome) ==
    IF ev.S3BucketName = Absent
    THEN [raised |-> TRUE, calls |-> <<>>, store |-> store,
          log |-> <<"Creating or Updating">>]
    ELSE IF ev.FunctionARN = Absent
    THEN [raised |-> TRUE, calls |-> <<>>, store |-> store,
          log |-> <<"Creating or Updating">>]
    ELSE
        LET merged ==
                [LambdaFunctionConfigurations |->
                    store[ev.S3BucketName].LambdaFunctionConfigurations
                    \o NotificationConfiguration(ev.FunctionARN).LambdaFunctionConfigurations]
            call == [Bucket |-> ev.S3BucketName,
                     NotificationConfiguration |-> merged,
                     Outcome |-> outcome]
        IN  [raised |-> outcome = "rejected",
             calls |-> <<call>>,
             store |-> PutBucketNotification(store, ev.S3BucketName, merged, outcome),
             log |-> IF outcome = "accepted"
                     THEN <<"Creating or Updating", "Created or Updated">>
                     ELSE <<"Creating or Updating">>]

\* faulty variant: a rejected put is caught and logged inside the handler
CreateOrUpdate_Swallowing(ev, store, outcome) ==
    IF ev.S3BucketName = Absent
    THEN [raised |-> TRUE, calls |-> <<>>, store |-> store,
          log |-> <<"Creating or Updating">>]
    ELSE IF ev.FunctionARN = Absent
    THEN [raised |-> TRUE, calls |-> <<>>, store |-> store,
          log |-> <<"Creating or Updating">>]
    ELSE
        LET configuration == NotificationConfiguration(ev.FunctionARN)
            call == [Bucket |-> ev.S3BucketName,
                     NotificationConfiguration |-> configuration,
                     Outcome |-> outcome]
        IN  [raised |-> FALSE,
             calls |-> <<call>>,
             store |-> PutBucketNotification(store, ev.S3BucketName, configuration, outcome),
             log |-> IF outcome = "accepted"
                     THEN <<"Creating or Updating", "Created or Updated">>
                     ELSE <<"Creating or Updating", "put failed">>]

\* lines 11-31, the handler registered for create and update: what it logs,
\* the storage calls it issues, the storage state it leaves and whether it
\* raises (a property is absent, or the put is rejected)
CreateOrUpdate(ev, store, outcome) ==
    IF ev.S3BucketName = Absent
    THEN [raised |-> TRUE, calls |-> <<>>, store |-> store,
          log |-> <<"Creating or Updating">>]
    ELSE IF ev.FunctionARN = Absent
    THEN [raised |-> TRUE, calls |-> <<>>, store |-> store,
          log |-> <<"Creating or Updating">>]
    ELSE
        LET configuration == NotificationConfiguration(ev.FunctionARN)
            call == [Bucket |-> ev.S3BucketName,
                     NotificationConfiguration |-> configuration,
                     Outcome |-> outcome]
        IN  [raised |-> outcome = "rejected",
             calls |-> <<call>>,
             store |-> PutBucketNotification(store, ev.S3BucketName, configuration, outcome),
             log |-> IF outcome = "accepted"
                     THEN <<"Creating or Updating", "Created or Updated">>
                     ELSE <<"Creating or Updating">>]

\* faulty variant: delete removes the bucket's notification configuration
Delete_Cleaning(ev, store) ==
    IF ev.S3BucketName = Absent
    THEN [raised |-> TRUE, calls |-> <<>>, store |-> store, log |-> <<>>]
    ELSE
        LET empty == [LambdaFunctionConfigurations |-> <<>>] IN
        [raised |-> FALSE,
         calls |-> <<[Bucket |-> ev.S3BucketName,
                      NotificationConfiguration |-> empty,
                      Outcome |-> "accepted"]>>,
         store |-> PutBucketNotification(store, ev.S3BucketName, empty, "accepted"),
         log |-> <<"Deleted">>]

\* lines 33-35, the handler registered for delete
Delete(ev, store) ==
    [raised |-> FALSE, calls |-> <<>>, store |-> store, log |-> <<"Deleted">>]

\* the decorators @helper.create, @helper.update (lines 9-10) and @helper.delete
\* (line 33): which function the helper holds for each phase
RegisteredHandler(request_type) ==
    IF request_type \in {"Create", "Update"} THEN "handler" ELSE "delete"

\* the lifecycle-callback layer: an exception out of the handler is reported
\* as failure, a return as completion
LifecycleStatus(raised) ==
    IF raised THEN "Failed" ELSE "Complete"

\* ---------------------------------------- Notification Registrar: actions
RegistrarIdle ==
    /\ bucketNotification = [b \in Buckets |-> [LambdaFunctionConfigurations |-> <<>>]]
    /\ regPc = "idle"
    /\ regEvent = None
    /\ regCalls = <<>>
    /\ regLog = <<>>
    /\ regStatus = None
    /\ regPrior = bucketNotification
    /\ regCount = 0

\* lines 37-38: the Lambda entry point hands the event to the helper
Receive(ev) ==
    /\ regPc # "dispatched"
    /\ regCount < MaxRegInv
    /\ regPc' = "dispatched"
    /\ regEvent' = ev
    /\ regCalls' = <<>>
    /\ regLog' = <<>>
    /\ regStatus' = "InProgress"
    /\ regPrior' = bucketNotification
    /\ regCount' = regCount + 1
    /\ UNCHANGED <<bucketNotification, notifierVars>>

\* the helper runs the create/update handler and reports its outcome
RunCreateOrUpdate(outcome) ==
    /\ regPc = "dispatched"
    /\ RegisteredHandler(regEvent.RequestType) = "handler"
    /\ LET run == CreateOrUpdate(regEvent, bucketNotification, outcome) IN
        /\ regCalls' = run.calls
        /\ regLog' = run.log
        /\ bucketNotification' = run.store
        /\ regStatus' = LifecycleStatus(run.raised)
    /\ regPc' = "done"
    /\ UNCHANGED <<regEvent, regPrior, regCount, notifierVars>>

\* the helper runs the delete handler and reports its outcome
RunDelete ==
    /\ regPc = "dispatched"
    /\ RegisteredHandler(regEvent.RequestType) = "delete"
    /\ LET run == Delete(regEvent, bucketNotification) IN
        /\ regCalls' = run.calls
        /\ regLog' = run.log
        /\ bucketNotification' = run.store
        /\ regStatus' = LifecycleStatus(run.raised)
    /\ regPc' = "done"
    /\ UNCHANGED <<regEvent, regPrior, regCount, notifierVars>>

RegInit ==
    /\ environ = [sender |-> "sender@example.com", recipient |-> "recipient@example.com",
                  awsregion |-> "eu-west-1"]
    /\ NotifierIdle
    /\ bucketNotification \in [Buckets -> PriorConfigurations]
    /\ regPc = "idle"
    /\ regEvent = None
    /\ regCalls = <<>>
    /\ regLog = <<>>
    /\ regStatus = None
    /\ regPrior = bucketNotification
    /\ regCount = 0

RegNext ==
    \/ \E ev \in RegEvents : Receive(ev)
    \/ \E outcome \in PutOutcomes : RunCreateOrUpdate(outcome)
    \/ RunDelete

RegSpec == RegInit /\ [][RegNext]_vars

\* ------------------------------------------------ Notification Registrar claims
WritesConfiguration == regEvent.RequestType \in {"Create", "Update"}
PropertiesPresent == regEvent.S3BucketName # Absent /\ regEvent.FunctionARN # Absent
\* the single rule the Registrar registers for function F2
SoleRule(F2) ==
    [LambdaFunctionConfigurations |->
        <<[Id |-> "object-create-permission",
           LambdaFunctionArn |-> F2,
           Events |-> <<"s3:ObjectCreated:*">>]>>]

\* C4: a create or update event with S3BucketName = B2 and FunctionARN = F2
\* issues exactly one put, on B2, whose configuration is the single rule
\* (object-create-permission, F2, s3:ObjectCreated:*); once the storage service
\* has accepted it, B2 holds exactly that rule whatever it held before, and
\* every other bucket holds what it held before.
C4_CreateOrUpdateOverwrites ==
    (regPc = "done" /\ WritesConfiguration /\ PropertiesPresent) =>
        LET B2 == regEvent.S3BucketName
            F2 == regEvent.FunctionARN
        IN  /\ Len(regCalls) = 1
            /\ regCalls[1].Bucket = B2
            /\ regCalls[1].NotificationConfiguration = SoleRule(F2)
            /\ regCalls[1].Outcome = "accepted" =>
                /\ bucketNotification[B2] = SoleRule(F2)
                /\ DOMAIN bucketNotification[B2] = {"LambdaFunctionConfigurations"}
                /\ Len(bucketNotification[B2].LambdaFunctionConfigurations) = 1
            /\ regCalls[1].Outcome = "rejected" => bucketNotification[B2] = regPrior[B2]
            /\ \A b \in Buckets \ {B2} : bucketNotification[b] = regPrior[b]

C4_Witness ==
    /\ regPc = "done"
    /\ regEvent.RequestType = "Create"
    /\ PropertiesPresent
    /\ regCalls # <<>>
    /\ regCalls[1].Outcome = "accepted"
    /\ "TopicConfigurations" \in DOMAIN regPrior[regEvent.S3BucketName]
    /\ Len(regPrior[regEvent.S3BucketName].LambdaFunctionConfigurations) = 2
    /\ bucketNotification[regEvent.S3BucketName] = SoleRule(regEvent.FunctionARN)

\* C5: a delete event issues no storage call, leaves every bucket's
\* notification configuration as it was when the event arrived, and logs the
\* one entry "Deleted".
C5_DeleteLeavesStorage ==
    (regPc = "done" /\ regEvent.RequestType = "Delete") =>
        /\ regCalls = <<>>
        /\ bucketNotification = regPrior
        /\ regLog = <<"Deleted">>

C5_Witness ==
    /\ regPc = "done"
    /\ regEvent.RequestType = "Delete"
    /\ regEvent.S3BucketName # Absent
    /\ \E f \in FunctionARNs : bucketNotification[regEvent.S3BucketName] = SoleRule(f)

\* C6: Create and Update run the configuration-writing handler and Delete the
\* no-op handler; a Create or Update ends Complete exactly when both properties
\* are present and the put is accepted, and ends Failed when a property is
\* absent (before any storage call) or the put is rejected, with at most one
\* storage call and storage left as it was; a Delete always ends Complete.
C6_Lifecycle ==
    /\ regPc = "dispatched" => regStatus = "InProgress"
    /\ regPc = "done" =>
        IF WritesConfiguration
        THEN /\ regLog # <<>> /\ regLog[1] = "Creating or Updating"
             /\ Len(regCalls) <= 1
             /\ regStatus \in {"Complete", "Failed"}
             /\ regStatus = "Complete" <=>
                    (PropertiesPresent /\ regCalls # <<>> /\ regCalls[1].Outcome = "accepted")
             /\ ~PropertiesPresent => regCalls = <<>>
             /\ regStatus = "Failed" => bucketNotification = regPrior
        ELSE /\ regStatus = "Complete"
             /\ regLog = <<"Deleted">>
             /\ regCalls = <<>>

C6_Witness ==
    /\ regPc = "done"
    /\ regEvent.RequestType = "Update"
    /\ regStatus = "Failed"
    /\ Len(regCalls) = 1
    /\ regCalls[1].Outcome = "rejected"
    /\ regCount >= 2

\* C9: a create or update event arriving when its bucket already holds the
\* rule an earlier create or update with the same S3BucketName and FunctionARN
\* registered leaves every bucket's configuration as it was; and running the
\* handler a second time on the storage it produced produces that storage.
C9_Idempotent ==
    /\ (/\ regPc = "done" /\ WritesConfiguration /\ PropertiesPresent
        /\ regPrior[regEvent.S3BucketName] = SoleRule(regEvent.FunctionARN))
        => bucketNotification = regPrior
    /\ (regPc # "idle" /\ WritesConfiguration /\ PropertiesPresent) =>
        LET once == CreateOrUpdate(regEvent, bucketNotification, "accepted").store
            other == [regEvent EXCEPT !.RequestType =
                        IF @ = "Create" THEN "Update" ELSE "Create"]
        IN  /\ CreateOrUpdate(regEvent, once, "accepted").store = once
            /\ CreateOrUpdate(other, once, "accepted").store = once
            /\ once[regEvent.S3BucketName] = SoleRule(regEvent.FunctionARN)

C9_Witness ==
    /\ regPc = "done"
    /\ regEvent.RequestType = "Update"
    /\ PropertiesPresent
    /\ regCalls # <<>>
    /\ regCalls[1].Outcome = "accepted"
    /\ regPrior[regEvent.S3BucketName] = SoleRule(regEvent.FunctionARN)
    /\ bucketNotification = regPrior
    /\ regCount >= 2

\* ---------------------------------------------------------- specifications
Init ==
    /\ environ \in Environs
    /\ NotifierIdle
    /\ RegistrarIdle

Next ==
    \/ \E i \in Invocations, ev \in Events : Invoke(i, ev)
    \/ \E i \in Invocations, r \in Responses : SendEmail(i, r)
    \/ \E i \in Invocations : Finish(i)

Spec == Init /\ [][Next]_vars

====
